---- MODULE Spec2Model ----
(***************************************************************************)
(* Model of arg_fn::Parser (src/src/lib.rs): a configuration value, a      *)
(* HashMap from Cow<str> keys to callbacks, and a callback for arguments   *)
(* that are not in the map.  The builder (new, with_arguments, default,    *)
(* arg) and the loop of parse are modelled; callbacks are drawn from a     *)
(* small set of named closures over a Config {foo, bar, list}.             *)
(* History variables (ctor, config0, table0, argLog, calls) record what    *)
(* the caller did and which closures ran; the code never reads them.       *)
(***************************************************************************)
EXTENDS Integers, Sequences, FiniteSets, TLC

VARIABLES
    pc,         \* "building" | "parsing" | "done": the lifecycle of the Parser value
    config,     \* Parser.config
    arguments,  \* Parser.arguments: a function from a finite set of Cow keys to callback names
    unknown,    \* Parser.unknown: the name of the fallback closure
    input,      \* the sequence of &str handed to parse
    pos,        \* position of the iterator of parse's for loop (next token to yield)
    ret,        \* <<>> until parse returns, then <<the returned Config>>
    ctor,       \* history: which constructor built the Parser
    config0,    \* history: the configuration given to the constructor
    table0,     \* history: the table given to with_arguments (empty otherwise)
    argLog,     \* history: the arg calls made so far, <<argument, callback>> each, oldest first
    calls       \* history: the closure invocations made by parse, oldest first

vars == <<pc, config, arguments, unknown, input, pos, ret,
          ctor, config0, table0, argLog, calls>>

-----------------------------------------------------------------------------
(* Bounds and the finite sets inputs are drawn from *)

MaxArgs == 2
MaxInput == 2
MaxExampleInput == 5

\* a string literal (&'a str) and a String, as handed to arg
Str(s) == [type |-> "&str", s |-> s]
String(s) == [type |-> "String", s |-> s]

\* the arguments the general specification registers: "-foo" comes both as a
\* literal and as a String
ArgValues == {Str("-foo"), String("-foo"), Str("-bar")}
\* tokens that may appear in an input of the general specification
Tokens == {"-foo", "-bar", "-x"}
\* the four arguments of the documentation example
ExampleKeys == {"-foo", "-nofoo", "-bar", "-nobar"}

\* the closures |cfg| cfg.foo = true, etc. of the documentation example
Callbacks == {"setFoo", "clrFoo", "setBar", "clrBar"}
\* the closures the general specification registers
GenCallbacks == {"setFoo", "clrFoo"}
\* fallback closures: |_cfg, _arg| {}  and  |cfg, arg| cfg.list.push(arg)
Fallbacks == {"noop", "append"}

\* Config::default() of #[derive(Default)] struct Config { foo: bool, bar: bool, list: Vec }
DefaultConfig == [foo |-> FALSE, bar |-> FALSE, list |-> <<>>]
\* the configuration the general specification hands to new and with_arguments
InitConfigs == {[foo |-> TRUE, bar |-> FALSE, list |-> <<>>]}

SeqsUpTo(S, n) == UNION {[1..k -> S] : k \in 0..n}

-----------------------------------------------------------------------------
(* Cow<'a, str> keys *)

\* impl Into<Cow<'a, str>>: a &str becomes Cow::Borrowed, a String Cow::Owned
IntoCow(a) ==
    [variant |-> IF a.type = "String" THEN "Owned" ELSE "Borrowed", s |-> a.s]

\* <Cow<str> as Borrow<str>>::borrow: the text of the key; Hash and Eq of a
\* Cow<str> are those of this text
Borrow(cow) == cow.s

\* HashMap::new()
EmptyMap == [k \in {} |-> "setFoo"]

\* every HashMap the general specification hands to with_arguments: borrowed
\* keys "-foo" and "-bar", values in GenCallbacks
Tables ==
    UNION {[D -> GenCallbacks] : D \in SUBSET {IntoCow(Str("-foo")), IntoCow(Str("-bar"))}}

-----------------------------------------------------------------------------
(* Closures *)

\* a registered closure Fn(&mut Config), applied to cfg
Callback(cb, cfg) ==
    CASE cb = "setFoo" -> [cfg EXCEPT !.foo = TRUE]
      [] cb = "clrFoo" -> [cfg EXCEPT !.foo = FALSE]
      [] cb = "setBar" -> [cfg EXCEPT !.bar = TRUE]
      [] cb = "clrBar" -> [cfg EXCEPT !.bar = FALSE]

\* a fallback closure Fn(&mut Config, &str), applied to cfg and arg
Unknown(fb, cfg, arg) ==
    CASE fb = "noop" -> cfg
      [] fb = "append" -> [cfg EXCEPT !.list = Append(@, arg)]

-----------------------------------------------------------------------------
(* HashMap operations *)

\* a HashMap::insert that keeps the value of a key that is already bound
Insert_keepFirst(map, k, v) ==
    IF \E k0 \in DOMAIN map : Borrow(k0) = Borrow(k)
    THEN map
    ELSE [x \in (DOMAIN map) \cup {k} |-> IF x = k THEN v ELSE map[x]]

\* a HashMap::insert that drops the other bindings
Insert_clear(map, k, v) ==
    [x \in {k} |-> v]

\* HashMap::insert(k, v): binds k to v; when a key equal to k is bound
\* already its value is replaced and the key itself is kept
Insert(map, k, v) ==
    IF \E k0 \in DOMAIN map : Borrow(k0) = Borrow(k)
    THEN [x \in DOMAIN map |-> IF Borrow(x) = Borrow(k) THEN v ELSE map[x]]
    ELSE [x \in (DOMAIN map) \cup {k} |-> IF x = k THEN v ELSE map[x]]

\* a HashMap::get that finds nothing
Get_miss(map, q) == <<>>

\* HashMap::get(q) for q: &str: <<v>> for Some(v), <<>> for None
Get(map, q) ==
    LET hits == {k \in DOMAIN map : Borrow(k) = q} IN
    IF hits = {} THEN <<>> ELSE <<map[CHOOSE k \in hits : TRUE]>>

-----------------------------------------------------------------------------
(* Constructors: the state right after construction *)

\* Parser::new(config, unknown)
New(c, u) ==
    /\ pc = "building"
    /\ config = c
    /\ arguments = EmptyMap
    /\ unknown = u
    /\ input = <<>> /\ pos = 0 /\ ret = <<>>
    /\ config0 = c /\ table0 = EmptyMap /\ argLog = <<>> /\ calls = <<>>

\* a with_arguments that starts from an empty table
WithArguments_dropTable(c, t, u) ==
    /\ pc = "building"
    /\ config = c
    /\ arguments = EmptyMap
    /\ unknown = u
    /\ input = <<>> /\ pos = 0 /\ ret = <<>>
    /\ config0 = c /\ table0 = t /\ argLog = <<>> /\ calls = <<>>

\* Parser::with_arguments(config, arguments, unknown)
WithArguments(c, t, u) ==
    /\ pc = "building"
    /\ config = c
    /\ arguments = t
    /\ unknown = u
    /\ input = <<>> /\ pos = 0 /\ ret = <<>>
    /\ config0 = c /\ table0 = t /\ argLog = <<>> /\ calls = <<>>

\* a default() whose fallback records the token
Default_append ==
    New(DefaultConfig, "append")

\* <Parser as Default>::default()
Default ==
    New(DefaultConfig, "noop")

Init ==
    \/ ctor = "new" /\ \E c \in InitConfigs, u \in Fallbacks : New(c, u)
    \/ ctor = "with_arguments"
         /\ \E c \in InitConfigs, t \in Tables, u \in Fallbacks : WithArguments(c, t, u)
    \/ ctor = "default" /\ Default

\* the start of the documentation example: Parser::new(Config::default(), |_cfg, _arg| {})
InitExample ==
    ctor = "new" /\ New(DefaultConfig, "noop")

-----------------------------------------------------------------------------
(* Operations *)

\* Parser::arg(argument, callback)
Arg(a, cb) ==
    /\ pc = "building"
    /\ arguments' = Insert(arguments, IntoCow(a), cb)
    /\ argLog' = Append(argLog, <<a, cb>>)
    /\ UNCHANGED <<pc, config, unknown, input, pos, ret, ctor, config0, table0, calls>>

\* Parser::parse(input): the call, up to the creation of the loop's iterator
Parse(in) ==
    /\ pc = "building"
    /\ pc' = "parsing"
    /\ input' = in
    /\ pos' = 1
    /\ UNCHANGED <<config, arguments, unknown, ret, ctor, config0, table0, argLog, calls>>

\* an iterator that yields the input from its end
IterNext_rev(in, p) == in[Len(in) + 1 - p]

\* the element the loop's iterator yields at position p
IterNext(in, p) == in[p]

\* a loop body without its else: the fallback runs for a matched token too
LoopBody_both(map, unk, cfg, arg) ==
    LET found == Get(map, arg) IN
    IF found # <<>>
    THEN LET mid == Callback(found[1], cfg)
             new == Unknown(unk, mid, arg) IN
         [config |-> new,
          calls |-> <<[token |-> arg, kind |-> "callback", fn |-> found[1],
                       passed |-> <<>>, before |-> cfg, after |-> mid],
                      [token |-> arg, kind |-> "unknown", fn |-> unk,
                       passed |-> <<arg>>, before |-> mid, after |-> new]>>]
    ELSE LET new == Unknown(unk, cfg, arg) IN
         [config |-> new,
          calls |-> <<[token |-> arg, kind |-> "unknown", fn |-> unk,
                       passed |-> <<arg>>, before |-> cfg, after |-> new]>>]

\* a loop body that hands the fallback an empty string instead of the token
LoopBody_noToken(map, unk, cfg, arg) ==
    LET found == Get(map, arg) IN
    IF found # <<>>
    THEN LET new == Callback(found[1], cfg) IN
         [config |-> new,
          calls |-> <<[token |-> arg, kind |-> "callback", fn |-> found[1],
                       passed |-> <<>>, before |-> cfg, after |-> new]>>]
    ELSE LET new == Unknown(unk, cfg, "") IN
         [config |-> new,
          calls |-> <<[token |-> arg, kind |-> "unknown", fn |-> unk,
                       passed |-> <<"">>, before |-> cfg, after |-> new]>>]

\* a loop body whose callback runs on a copy of the configuration
LoopBody_copy(map, unk, cfg, arg) ==
    LET found == Get(map, arg) IN
    IF found # <<>>
    THEN LET new == Callback(found[1], cfg) IN
         [config |-> cfg,
          calls |-> <<[token |-> arg, kind |-> "callback", fn |-> found[1],
                       passed |-> <<>>, before |-> cfg, after |-> new]>>]
    ELSE LET new == Unknown(unk, cfg, arg) IN
         [config |-> new,
          calls |-> <<[token |-> arg, kind |-> "unknown", fn |-> unk,
                       passed |-> <<arg>>, before |-> cfg, after |-> new]>>]

\* the body of parse's for loop on arg: the new configuration and the
\* closure invocations made (token: the loop variable; passed: the &str
\* handed to the closure, if any; before, after: the configuration the
\* closure was given and left)
LoopBody(map, unk, cfg, arg) ==
    LET found == Get(map, arg) IN
    IF found # <<>>
    THEN LET new == Callback(found[1], cfg) IN
         [config |-> new,
          calls |-> <<[token |-> arg, kind |-> "callback", fn |-> found[1],
                       passed |-> <<>>, before |-> cfg, after |-> new]>>]
    ELSE LET new == Unknown(unk, cfg, arg) IN
         [config |-> new,
          calls |-> <<[token |-> arg, kind |-> "unknown", fn |-> unk,
                       passed |-> <<arg>>, before |-> cfg, after |-> new]>>]

\* one iteration of parse's for loop
ParseStep ==
    /\ pc = "parsing"
    /\ pos <= Len(input)
    /\ LET r == LoopBody(arguments, unknown, config, IterNext(input, pos)) IN
         /\ config' = r.config
         /\ calls' = calls \o r.calls
    /\ pos' = pos + 1
    /\ UNCHANGED <<pc, arguments, unknown, input, ret, ctor, config0, table0, argLog>>

\* a parse that returns a fresh Config::default()
Returned_default(cfg) == DefaultConfig

\* the value parse returns once the loop is over: self.config
Returned(cfg) == cfg

\* the end of parse: the iterator is exhausted and self.config is returned
ParseReturn ==
    /\ pc = "parsing"
    /\ pos > Len(input)
    /\ pc' = "done"
    /\ ret' = <<Returned(config)>>
    /\ UNCHANGED <<config, arguments, unknown, input, pos, ctor, config0, table0, argLog, calls>>

\* an arg call of the general specification
ArgAny ==
    /\ Len(argLog) < MaxArgs
    /\ \E a \in ArgValues, cb \in GenCallbacks : Arg(a, cb)

\* a parse call of the general specification
ParseAny == \E in \in SeqsUpTo(Tokens, MaxInput) : Parse(in)

Next == ArgAny \/ ParseAny \/ ParseStep \/ ParseReturn

Spec == Init /\ [][Next]_vars

-----------------------------------------------------------------------------
(* The documentation example: the four arg calls of the doc tests, in their
   order, then parse of an input over the four arguments *)

ExampleArgs ==
    << <<Str("-foo"), "setFoo">>, <<Str("-nofoo"), "clrFoo">>,
       <<Str("-bar"), "setBar">>, <<Str("-nobar"), "clrBar">> >>

ExampleInput == <<"-bar", "-nofoo", "-foo", "-nobar", "-foo">>

ArgExample ==
    /\ Len(argLog) < Len(ExampleArgs)
    /\ LET a == ExampleArgs[Len(argLog) + 1] IN Arg(a[1], a[2])

ParseExample ==
    /\ Len(argLog) = Len(ExampleArgs)
    /\ \E in \in SeqsUpTo(ExampleKeys, MaxExampleInput) : Parse(in)

NextExample == ArgExample \/ ParseExample \/ ParseStep \/ ParseReturn

SpecExample == InitExample /\ [][NextExample]_vars

-----
(* Helpers of the properties *)

\* the texts of the keys of map
KeyTexts(map) == {Borrow(k) : k \in DOMAIN map}

\* t is the text of a key of map
IsKey(map, t) == t \in KeyTexts(map)

\* the callback map binds to the key of text t
Bound(map, t) == map[CHOOSE k \in DOMAIN map : Borrow(k) = t]

\* the tokens of in that are not keys of map, in order
Unmatched(in, map) ==
    LET notKey(t) == ~IsKey(map, t) IN SelectSeq(in, notKey)

\* the positions of log whose arg call registered the text t
ArgCallsOf(log, t) == {j \in 1..Len(log) : log[j][1].s = t}

Last(S) == CHOOSE m \in S : \A n \in S : n <= m

\* the configuration the i-th invocation of a parse must start from
ConfigBefore(i) == IF i = 1 THEN config0 ELSE calls[i - 1].after

\* the closure the table and the fallback select for token t
Selected(t) == IF IsKey(arguments, t) THEN Bound(arguments, t) ELSE unknown

\* the value whose conversion into a Cow is k
FromCow(k) == IF k.variant = "Owned" THEN String(k.s) ELSE Str(k.s)

\* the bindings of a table as a sequence of arg calls
RECURSIVE TableAsArgs(_)
TableAsArgs(t) ==
    IF DOMAIN t = {} THEN <<>>
    ELSE LET k == CHOOSE x \in DOMAIN t : TRUE
             rest == [x \in (DOMAIN t) \ {k} |-> t[x]]
         IN <<(<<FromCow(k), t[k]>>)>> \o TableAsArgs(rest)

\* the table of Parser::new(..) followed by the arg calls of log
RECURSIVE ArgsFromNew(_)
ArgsFromNew(log) ==
    IF log = <<>> THEN EmptyMap
    ELSE LET a == log[Len(log)] IN
         Insert(ArgsFromNew(SubSeq(log, 1, Len(log) - 1)), IntoCow(a[1]), a[2])

\* what parse returns for a Parser with the given fields
RECURSIVE RunParse(_, _, _, _)
RunParse(cfg, map, unk, in) ==
    IF in = <<>> THEN Returned(cfg)
    ELSE RunParse(LoopBody(map, unk, cfg, IterNext(in, 1)).config, map, unk, Tail(in))

-----------------------------------------------------------------------------
(* Properties *)

\* C1: parse invokes exactly one closure per input token, the matched callback
\* if the token is a key of the table and the fallback otherwise, so that the
\* number of invocations equals the number of tokens consumed, and the number
\* of input tokens once parse has returned.
C1_OneInvocationPerToken ==
    /\ pc = "building" => calls = <<>>
    /\ pc = "parsing" => Len(calls) = pos - 1
    /\ pc = "done" => Len(calls) = Len(input)
    /\ \A i \in 1..Len(calls) :
         IF IsKey(arguments, input[i])
         THEN calls[i].kind = "callback" /\ calls[i].fn = Bound(arguments, input[i])
         ELSE calls[i].kind = "unknown" /\ calls[i].fn = unknown

C1_Witness ==
    /\ pc = "done"
    /\ \E i, j \in 1..Len(input) :
         IsKey(arguments, input[i]) /\ ~IsKey(arguments, input[j])

\* C2: the i-th invocation is the one selected by the i-th token of the input,
\* and it starts from the configuration left by the invocations for the tokens
\* before it (the constructor's configuration for the first).
C2_InvocationsInInputOrder ==
    /\ Len(calls) <= Len(input)
    /\ \A i \in 1..Len(calls) :
         /\ calls[i].token = input[i]
         /\ calls[i].fn = Selected(input[i])
         /\ calls[i].before = ConfigBefore(i)
    /\ pc # "building" => config = ConfigBefore(Len(calls) + 1)

C2_Witness ==
    /\ pc = "done"
    /\ Len(calls) >= 2
    /\ calls[1].token # calls[2].token
    /\ calls[1].fn # calls[2].fn
    /\ calls[2].before # config0

\* C3: when arg was called several times with one key, every occurrence of
\* that key in the input invokes the callback of the latest of those arg
\* calls, and no callback of an earlier arg call for that key that differs
\* from it.
C3_LatestArgWins ==
    \A i \in 1..Len(calls) :
        LET js == ArgCallsOf(argLog, calls[i].token) IN
        js # {} =>
            /\ calls[i].kind = "callback"
            /\ calls[i].fn = argLog[Last(js)][2]
            /\ \A j \in js : argLog[j][2] # argLog[Last(js)][2] => calls[i].fn # argLog[j][2]

C3_Witness ==
    /\ pc = "done"
    /\ \E i \in 1..Len(calls) :
         LET js == ArgCallsOf(argLog, calls[i].token) IN
         /\ Cardinality(js) >= 2
         /\ \E j \in js : /\ argLog[j][2] # argLog[Last(js)][2]
                          /\ argLog[j][1].type # argLog[Last(js)][1].type

\* C4: for every input token that is not a key of the table the fallback is
\* invoked with that very token and with the configuration left by the tokens
\* before it, and no registered callback is invoked for it.
C4_FallbackGetsToken ==
    \A i \in 1..Len(calls) :
        ~IsKey(arguments, input[i]) =>
            /\ calls[i].kind = "unknown"
            /\ calls[i].fn = unknown
            /\ calls[i].passed = <<input[i]>>
            /\ calls[i].before = ConfigBefore(i)
            /\ calls[i].after = Unknown(unknown, ConfigBefore(i), input[i])

C4_Witness ==
    /\ pc = "done"
    /\ unknown = "append"
    /\ \E i \in 2..Len(calls) :
         /\ ~IsKey(arguments, input[i])
         /\ calls[i].before # config0
         /\ calls[i].after # calls[i].before

\* C5: with_arguments(config, table, fallback) followed by arg calls holds
\* the same table as new(config, fallback) followed by arg calls for the
\* table's bindings and then the same arg calls, and parse returns the same
\* configuration; a later arg call overrides a colliding key of the table.
C5_WithArgumentsAsArgs ==
    ctor = "with_arguments" =>
        LET viaArg == ArgsFromNew(TableAsArgs(table0) \o argLog) IN
        /\ arguments = viaArg
        /\ pc = "done" => ret = <<RunParse(config0, viaArg, unknown, input)>>
        /\ \A t \in KeyTexts(table0) :
             ArgCallsOf(argLog, t) # {} =>
                 Bound(arguments, t) = argLog[Last(ArgCallsOf(argLog, t))][2]

C5_Witness ==
    /\ ctor = "with_arguments"
    /\ pc = "done"
    /\ \E t \in KeyTexts(table0) :
         /\ ArgCallsOf(argLog, t) # {}
         /\ Bound(arguments, t) # Bound(table0, t)
         /\ \E i \in 1..Len(input) : input[i] = t
    /\ \E t \in KeyTexts(table0) : ArgCallsOf(argLog, t) = {}

\* C6: in the documentation example, parse of
\* <<"-bar", "-nofoo", "-foo", "-nobar", "-foo">> returns {foo: true, bar: false},
\* and for any input over the four arguments the returned foo (bar) is the
\* value set by the last foo-token (bar-token), or the initial value.
C6_LastTokenDecides ==
    pc = "done" =>
        LET foos == {i \in 1..Len(input) : input[i] \in {"-foo", "-nofoo"}}
            bars == {i \in 1..Len(input) : input[i] \in {"-bar", "-nobar"}}
        IN
        /\ ret[1].foo = IF foos = {} THEN config0.foo ELSE input[Last(foos)] = "-foo"
        /\ ret[1].bar = IF bars = {} THEN config0.bar ELSE input[Last(bars)] = "-bar"
        /\ input = ExampleInput => ret[1].foo = TRUE /\ ret[1].bar = FALSE

C6_Witness ==
    /\ pc = "done"
    /\ input = ExampleInput
    /\ ret = <<[foo |-> TRUE, bar |-> FALSE, list |-> <<>>]>>

\* C7: with the fallback that appends its token to the list of the
\* configuration, the returned list is the subsequence of the input tokens
\* that are not keys of the table, in input order and with repetitions, and
\* holds no key of the table.
C7_ListOfUnmatched ==
    (pc = "done" /\ unknown = "append") =>
        /\ ret[1].list = Unmatched(input, arguments)
        /\ \A n \in 1..Len(ret[1].list) : ~IsKey(arguments, ret[1].list[n])

C7_Witness ==
    /\ pc = "done"
    /\ unknown = "append"
    /\ ret[1].list # <<>>
    /\ Len(input) > Len(ret[1].list)

\* C8: parse of the empty input invokes no closure and returns the
\* configuration given to the constructor.
C8_EmptyInput ==
    (pc = "done" /\ input = <<>>) => (calls = <<>> /\ ret = <<config0>>)

C8_Witness ==
    /\ pc = "done"
    /\ input = <<>>
    /\ config0 # DefaultConfig
    /\ DOMAIN arguments # {}
    /\ unknown = "append"

\* C9: a default-constructed Parser holds the default configuration, an empty
\* table until arg is called and a fallback that leaves the configuration
\* unchanged, so that with no registration parse returns the default
\* configuration for every input.
C9_DefaultParser ==
    ctor = "default" =>
        /\ config0 = DefaultConfig
        /\ unknown = "noop"
        /\ argLog = <<>> => DOMAIN arguments = {}
        /\ \A i \in 1..Len(calls) :
             calls[i].kind = "unknown" => calls[i].after = calls[i].before
        /\ (pc = "done" /\ argLog = <<>>) => ret = <<DefaultConfig>>

C9_Witness ==
    /\ ctor = "default"
    /\ pc = "done"
    /\ argLog = <<>>
    /\ Len(input) >= 2
    /\ input[1] # input[2]

\* C10: arg changes only the binding of its key (no closure runs, the
\* configuration, the fallback and the other bindings stay as they are), parse
\* changes neither the table nor the fallback, and two occurrences of a token
\* in one input select the same closure.
C10_Frame ==
    [][/\ (pc = "building" /\ argLog' # argLog) =>
            /\ config' = config
            /\ unknown' = unknown
            /\ calls' = calls /\ calls = <<>>
            /\ pc' = "building"
            /\ LET t == argLog'[Len(argLog')][1].s IN
               /\ KeyTexts(arguments') = KeyTexts(arguments) \cup {t}
               /\ \A x \in KeyTexts(arguments) \ {t} :
                    Bound(arguments', x) = Bound(arguments, x)
       /\ pc' # "building" => (arguments' = arguments /\ unknown' = unknown)
       /\ \A i, j \in 1..Len(calls') :
            calls'[i].token = calls'[j].token => calls'[i].fn = calls'[j].fn
      ]_vars

C10_Witness ==
    /\ pc = "done"
    /\ Len(argLog) >= 2
    /\ argLog[1][1].s # argLog[2][1].s
    /\ \E i, j \in 1..Len(calls) : i # j /\ calls[i].token = calls[j].token

====
